---- MODULE Spec2Model ----
(***************************************************************************)
(* Model of the concurrency primitives of golisp (prim_concurrency.go):    *)
(* fork, proc-sleep, wake, schedule, reset-timeout and abandon.            *)
(*                                                                         *)
(* A Process owns three buffered channels of capacity 1 (Wake, Abort,      *)
(* Restart) and, when created by schedule, a time.Timer.  Goroutines are   *)
(* interleaved freely: a select statement is one atomic step that picks    *)
(* any one of the cases that can proceed at that moment.  Time is a        *)
(* discrete millisecond tick that counts every running timer down.         *)
(***************************************************************************)
EXTENDS Integers, FiniteSets, TLC

\* ---------------------------------------------------------------- bounds
NumProcs == 1
NumThreads == 2
MaxDelay == 2
MaxArity == 2
\* The longest stack trace, in lines, that a recovered fault captures.
MaxStack == 8

\* ------------------------------------------------------ program constants
\* make(chan bool, 1): the capacity of Wake, Abort and Restart.
ChanCap == 1
\* RequiredArgCount != 1 is refused by fork and schedule.
RequiredArity == 1
\* callWithPanicProtection logs stack[0..6].
StackLines == 7

Procs == 1..NumProcs
Threads == 1..NumThreads
Delays == 0..MaxDelay
Arities == 0..MaxArity
\* The number of lines strings.Split finds in what runtime.Stack wrote.
Traces == 0..MaxStack
\* The handle of an object that is not a Process.
NoProc == 0

VARIABLES
    kind,           \* kind[p]: "none" (not created), "fork" or "sched"
    Wake,           \* Process.Wake: number of buffered events
    Abort,          \* Process.Abort
    Restart,        \* Process.Restart
    ScheduleTimer,  \* Process.ScheduleTimer: [left, C]
    millis,         \* the delay captured by schedule's closure
    ctl,            \* position of the spawned goroutine of p
    invoked,        \* number of times Code was applied for p
    outcome,        \* how the callback of p ended
    logs,           \* lines written by LogPrintf on behalf of p
    age,            \* ms since schedule created p, while its controller waits
    abandons,       \* abandon calls on p: "none", "some", or "early" (one
                    \* returned "OK" before the delay of p had elapsed)
    resets,         \* number of reset-timeout calls made on p (counted to 2)
    earlyReset,     \* the first of them was made while the controller was
                    \* waiting and the delay had not elapsed
    sinceReset,     \* ms since that first call, while the controller waits
    kept,           \* Wake of p holds an event that a wake delivered while no
                    \* proc-sleep on p was pending
    pc,             \* pc[t]: "idle" or the call thread t is blocked in
    tgt,            \* the Process that call was given
    sleepLeft,      \* ms left on the time.After timer of t's proc-sleep
    wakeInWindow,   \* a wake was delivered to tgt[t] while t's proc-sleep was
                    \* pending and its duration had not elapsed
    wakeSeen,       \* Wake of tgt[t] held an event at some moment of the call
    late,           \* t's abandon was called after the controller had exited
    drained,        \* a proc-sleep took an event from Wake of tgt[t] while
                    \* t's wake was blocked
    preWoken,       \* t's proc-sleep, of a duration > 0, started with such a
                    \* kept event in Wake and no other proc-sleep pending on
                    \* tgt[t], and none has started since
    returned        \* the call that returned in the last step (NoCall if none)

procVars == <<kind, Wake, Abort, Restart, ScheduleTimer, millis, ctl, invoked, outcome, logs>>
histVars == <<age, abandons, resets, earlyReset, sinceReset, kept>>
threadVars == <<pc, tgt, sleepLeft, wakeInWindow, wakeSeen, late, drained, preWoken>>
vars == <<procVars, histVars, threadVars, returned>>

NoCall == [op |-> "none"]

\* ------------------------------------------------------------ time.Timer
\* A timer is [left, C]: left is the time to expiry (-1: not running), C the
\* number of ticks buffered in its channel (capacity 1).  A duration <= 0
\* expires at once.
TimerOff == -1

\* Mutant: the timer is created already expired, whatever the delay.
NewTimerExpired(d) == [left |-> TimerOff, C |-> 1]

NewTimer(d) ==
    IF d <= 0 THEN [left |-> TimerOff, C |-> 1] ELSE [left |-> d, C |-> 0]

\* Mutant: the restart case stops the timer where it should re-arm it.
ResetTimerStops(tm, d) == [left |-> TimerOff, C |-> 0]

\* Timer.Reset re-arms the timer; it does not drain a tick already in C.
ResetTimer(tm, d) ==
    IF d <= 0 THEN [left |-> TimerOff, C |-> 1] ELSE [left |-> d, C |-> tm.C]

\* One millisecond passes: an expiring timer drops a tick in C (non-blocking send).
TickTimer(tm) ==
    IF tm.left = TimerOff THEN tm
    ELSE IF tm.left = 1 THEN [left |-> TimerOff, C |-> 1]
    ELSE [left |-> tm.left - 1, C |-> tm.C]

NoTimer == [left |-> TimerOff, C |-> 0]

\* -------------------------------------------------------------- channels
\* Mutant: the channels are made without a buffer, so that a send with no
\* receiver waiting never proceeds.
CanSendUnbuffered(n) == n < 0
\* Mutant: the buffer has no bound, so that a send always proceeds.
CanSendAlways(n) == TRUE

\* A send on a buffered channel proceeds iff the buffer is not full.
CanSend(n) == n < ChanCap
\* Mutant: a receive proceeds on an empty buffer too.
CanRecvAlways(n) == TRUE

\* A receive proceeds iff the buffer is not empty.
CanRecv(n) == n > 0

Min(a, b) == IF a < b THEN a ELSE b
Max(a, b) == IF a > b THEN a ELSE b

Created == {p \in Procs : kind[p] # "none"}
\* What a script can pass as a process argument: a Process or another object.
Handles == Created \cup {NoProc}
\* Processes are allocated in order: the next one takes the first free slot.
FreeSlot == IF Created = Procs THEN NoProc
            ELSE CHOOSE p \in Procs : kind[p] = "none" /\ \A q \in Procs : kind[q] = "none" => p <= q
\* Threads stand for the callers that are blocked in a primitive; they are
\* interchangeable, and a call that has to wait takes the first free one.  A
\* call that returns at once needs none.
Idle(t) == pc[t] = "idle" /\ \A u \in Threads : pc[u] = "idle" => t <= u

\* No fault has escaped callWithPanicProtection: a panic that leaves a
\* goroutine unrecovered ends the whole program.
HostUp == \A p \in Procs : ctl[p] # "crashed"

\* The controller of p has left its loop.
Exited(p) == ctl[p] \in {"fired", "aborted"}
\* The delay given to schedule has not yet elapsed since the call.
BeforeDelay(p) == kind[p] = "sched" /\ ctl[p] = "armed" /\ age[p] < millis[p]

Init ==
    /\ kind = [p \in Procs |-> "none"]
    /\ Wake = [p \in Procs |-> 0]
    /\ Abort = [p \in Procs |-> 0]
    /\ Restart = [p \in Procs |-> 0]
    /\ ScheduleTimer = [p \in Procs |-> NoTimer]
    /\ millis = [p \in Procs |-> 0]
    /\ ctl = [p \in Procs |-> "none"]
    /\ invoked = [p \in Procs |-> 0]
    /\ outcome = [p \in Procs |-> "none"]
    /\ logs = [p \in Procs |-> 0]
    /\ age = [p \in Procs |-> 0]
    /\ abandons = [p \in Procs |-> "none"]
    /\ resets = [p \in Procs |-> 0]
    /\ earlyReset = [p \in Procs |-> FALSE]
    /\ sinceReset = [p \in Procs |-> 0]
    /\ kept = [p \in Procs |-> FALSE]
    /\ pc = [t \in Threads |-> "idle"]
    /\ tgt = [t \in Threads |-> NoProc]
    /\ sleepLeft = [t \in Threads |-> 0]
    /\ wakeInWindow = [t \in Threads |-> FALSE]
    /\ wakeSeen = [t \in Threads |-> FALSE]
    /\ late = [t \in Threads |-> FALSE]
    /\ drained = [t \in Threads |-> FALSE]
    /\ preWoken = [t \in Threads |-> FALSE]
    /\ returned = NoCall

\* Thread t goes back to idle, its bookkeeping cleared.
Release(t) ==
    /\ pc' = [pc EXCEPT ![t] = "idle"]
    /\ tgt' = [tgt EXCEPT ![t] = NoProc]
    /\ sleepLeft' = [sleepLeft EXCEPT ![t] = 0]
    /\ wakeInWindow' = [wakeInWindow EXCEPT ![t] = FALSE]
    /\ wakeSeen' = [wakeSeen EXCEPT ![t] = FALSE]
    /\ late' = [late EXCEPT ![t] = FALSE]
    /\ preWoken' = [preWoken EXCEPT ![t] = FALSE]

\* No proc-sleep on p is pending.
NoSleeper(p) == \A u \in Threads : ~(pc[u] = "sleep" /\ tgt[u] = p)

\* The blocked wake calls on p that saw a proc-sleep take an event from Wake of p.
DrainedAfterRecv(p) ==
    [u \in Threads |-> drained[u] \/ (pc[u] = "wake" /\ tgt[u] = p)]

\* ------------------------------------------------------------------ fork
\* The argument checks of fork and its result.
ForkResult(fIsFunc, arity) ==
    IF ~fIsFunc THEN "TypeError"
    ELSE IF arity # RequiredArity THEN "ArityError"
    ELSE "Process"

\* Mutant: fork applies Code itself, without the go statement, before it returns.
ForkImplInline(fIsFunc, arity) ==
    /\ HostUp
    /\ IF ForkResult(fIsFunc, arity) = "Process"
       THEN /\ FreeSlot # NoProc
            /\ kind' = [kind EXCEPT ![FreeSlot] = "fork"]
            /\ ctl' = [ctl EXCEPT ![FreeSlot] = "running"]
            /\ invoked' = [invoked EXCEPT ![FreeSlot] = @ + 1]
       ELSE UNCHANGED <<kind, ctl, invoked>>
    /\ returned' = [op |-> "fork", dIsInt |-> TRUE, fIsFunc |-> fIsFunc, arity |-> arity,
                    ret |-> ForkResult(fIsFunc, arity)]
    /\ UNCHANGED <<Wake, Abort, Restart, ScheduleTimer, millis, outcome, logs>>
    /\ UNCHANGED <<histVars, threadVars>>

ForkImpl(fIsFunc, arity) ==
    /\ HostUp
    /\ IF ForkResult(fIsFunc, arity) = "Process"
       THEN /\ FreeSlot # NoProc
            /\ kind' = [kind EXCEPT ![FreeSlot] = "fork"]
            /\ ctl' = [ctl EXCEPT ![FreeSlot] = "spawned"]
       ELSE UNCHANGED <<kind, ctl>>
    /\ returned' = [op |-> "fork", dIsInt |-> TRUE, fIsFunc |-> fIsFunc, arity |-> arity,
                    ret |-> ForkResult(fIsFunc, arity)]
    /\ UNCHANGED <<Wake, Abort, Restart, ScheduleTimer, millis, invoked, outcome, logs>>
    /\ UNCHANGED <<histVars, threadVars>>

\* The forked goroutine starts: it applies Code to the handle.
ForkRun(p) ==
    /\ HostUp
    /\ kind[p] = "fork" /\ ctl[p] = "spawned"
    /\ ctl' = [ctl EXCEPT ![p] = "running"]
    /\ invoked' = [invoked EXCEPT ![p] = @ + 1]
    /\ returned' = NoCall
    /\ UNCHANGED <<kind, Wake, Abort, Restart, ScheduleTimer, millis, outcome, logs>>
    /\ UNCHANGED <<histVars, threadVars>>

\* Lines logged for a callback that returned how: an error value is logged
\* once, a normal return not at all.
LogLines(how) ==
    IF how = "err" THEN 1 ELSE 0

\* Mutant: the timer case lacks its break, and the controller goes back to
\* its select after the callback.
CallbackReturnLoops(p, how) ==
    /\ HostUp
    /\ ctl[p] = "running"
    /\ ctl' = [ctl EXCEPT ![p] = IF kind[p] = "fork" THEN "done" ELSE "armed"]
    /\ outcome' = [outcome EXCEPT ![p] = how]
    /\ logs' = [logs EXCEPT ![p] = LogLines(how)]
    /\ returned' = NoCall
    /\ UNCHANGED <<kind, Wake, Abort, Restart, ScheduleTimer, millis, invoked>>
    /\ UNCHANGED <<histVars, threadVars>>

\* The callback returns, with or without an error value, and the goroutine ends.
CallbackReturn(p, how) ==
    /\ HostUp
    /\ ctl[p] = "running"
    /\ ctl' = [ctl EXCEPT ![p] = IF kind[p] = "fork" THEN "done" ELSE "fired"]
    /\ outcome' = [outcome EXCEPT ![p] = how]
    /\ logs' = [logs EXCEPT ![p] = LogLines(how)]
    /\ returned' = NoCall
    /\ UNCHANGED <<kind, Wake, Abort, Restart, ScheduleTimer, millis, invoked>>
    /\ UNCHANGED <<histVars, threadVars>>

\* The deferred function of callWithPanicProtection reads stack[0] to
\* stack[StackLines - 1]: with a trace of n lines it returns iff n >= StackLines,
\* and otherwise the index runs out of range, a fault nothing recovers.
Recovered(n) == n >= StackLines

\* The callback raises a runtime fault whose trace has n lines: the wrapper
\* recovers it and logs the first StackLines lines, and the goroutine ends.
CallbackFault(p, n) ==
    /\ HostUp
    /\ ctl[p] = "running"
    /\ ctl' = [ctl EXCEPT ![p] = IF ~Recovered(n) THEN "crashed"
                                 ELSE IF kind[p] = "fork" THEN "done" ELSE "fired"]
    /\ outcome' = [outcome EXCEPT ![p] = "fault"]
    /\ logs' = [logs EXCEPT ![p] = Min(n, StackLines)]
    /\ returned' = NoCall
    /\ UNCHANGED <<kind, Wake, Abort, Restart, ScheduleTimer, millis, invoked>>
    /\ UNCHANGED <<histVars, threadVars>>

\* -------------------------------------------------------------- schedule
\* Mutant: the arity check refuses only callables that take too few arguments.
ScheduleResultArityAtLeast(dIsInt, fIsFunc, arity) ==
    IF ~dIsInt THEN "TypeError"
    ELSE IF ~fIsFunc THEN "TypeError"
    ELSE IF arity < RequiredArity THEN "ArityError"
    ELSE "Process"

\* The argument checks of schedule, in the order the code makes them.
ScheduleResult(dIsInt, fIsFunc, arity) ==
    IF ~dIsInt THEN "TypeError"
    ELSE IF ~fIsFunc THEN "TypeError"
    ELSE IF arity # RequiredArity THEN "ArityError"
    ELSE "Process"

ScheduleImpl(dIsInt, d, fIsFunc, arity) ==
    /\ HostUp
    /\ IF ScheduleResult(dIsInt, fIsFunc, arity) = "Process"
       THEN /\ FreeSlot # NoProc
            /\ kind' = [kind EXCEPT ![FreeSlot] = "sched"]
            /\ ScheduleTimer' = [ScheduleTimer EXCEPT ![FreeSlot] = NewTimer(d)]
            /\ millis' = [millis EXCEPT ![FreeSlot] = d]
            /\ ctl' = [ctl EXCEPT ![FreeSlot] = "armed"]
       ELSE UNCHANGED <<kind, ScheduleTimer, millis, ctl>>
    /\ returned' = [op |-> "schedule", dIsInt |-> dIsInt, fIsFunc |-> fIsFunc, arity |-> arity,
                    ret |-> ScheduleResult(dIsInt, fIsFunc, arity)]
    /\ UNCHANGED <<Wake, Abort, Restart, invoked, outcome, logs>>
    /\ UNCHANGED <<histVars, threadVars>>

\* The cases of the controller's select that can proceed.
ControllerReady(p) ==
    {c \in {"abort", "restart", "timer"} :
        \/ c = "abort" /\ CanRecv(Abort[p])
        \/ c = "restart" /\ CanRecv(Restart[p])
        \/ c = "timer" /\ CanRecv(ScheduleTimer[p].C)}

\* Mutant: the abort and timer cases lack their break, so that the select
\* is reached again after the controller should have exited.
ControllerStepAfterExit(p, c) ==
    /\ HostUp
    /\ kind[p] = "sched" /\ ctl[p] \in {"armed", "fired", "aborted"}
    /\ c \in ControllerReady(p)
    /\ \/ /\ c = "abort"
          /\ Abort' = [Abort EXCEPT ![p] = @ - 1]
          /\ ctl' = [ctl EXCEPT ![p] = "aborted"]
          /\ UNCHANGED <<Restart, ScheduleTimer, invoked>>
       \/ /\ c = "restart"
          /\ Restart' = [Restart EXCEPT ![p] = @ - 1]
          /\ ScheduleTimer' = [ScheduleTimer EXCEPT ![p] = ResetTimer(@, millis[p])]
          /\ UNCHANGED <<Abort, ctl, invoked>>
       \/ /\ c = "timer"
          /\ ScheduleTimer' = [ScheduleTimer EXCEPT ![p].C = @ - 1]
          /\ ctl' = [ctl EXCEPT ![p] = "running"]
          /\ invoked' = [invoked EXCEPT ![p] = @ + 1]
          /\ UNCHANGED <<Abort, Restart>>
    /\ returned' = NoCall
    /\ UNCHANGED <<kind, Wake, millis, outcome, logs>>
    /\ UNCHANGED <<histVars, threadVars>>

\* One pass of the controller loop: select picks a ready case.
ControllerStep(p, c) ==
    /\ HostUp
    /\ kind[p] = "sched" /\ ctl[p] = "armed"
    /\ c \in ControllerReady(p)
    /\ \/ /\ c = "abort"
          /\ Abort' = [Abort EXCEPT ![p] = @ - 1]
          /\ ctl' = [ctl EXCEPT ![p] = "aborted"]
          /\ UNCHANGED <<Restart, ScheduleTimer, invoked>>
       \/ /\ c = "restart"
          /\ Restart' = [Restart EXCEPT ![p] = @ - 1]
          /\ ScheduleTimer' = [ScheduleTimer EXCEPT ![p] = ResetTimer(@, millis[p])]
          /\ UNCHANGED <<Abort, ctl, invoked>>
       \/ /\ c = "timer"
          /\ ScheduleTimer' = [ScheduleTimer EXCEPT ![p].C = @ - 1]
          /\ ctl' = [ctl EXCEPT ![p] = "running"]
          /\ invoked' = [invoked EXCEPT ![p] = @ + 1]
          /\ UNCHANGED <<Abort, Restart>>
    /\ returned' = NoCall
    /\ UNCHANGED <<kind, Wake, millis, outcome, logs>>
    /\ UNCHANGED <<histVars, threadVars>>

\* ------------------------------------------------------------ proc-sleep
\* Mutant: the timer case can proceed before the duration has elapsed.
SleepReadyTimerAlways(t) ==
    {c \in {"wake", "timer"} : c = "timer" \/ CanRecv(Wake[tgt[t]])}
\* Mutant: the wake case can proceed without an event in Wake.
SleepReadyWakeAlways(t) ==
    {c \in {"wake", "timer"} : c = "wake" \/ sleepLeft[t] = 0}

\* The cases of proc-sleep's select that can proceed for thread t.
SleepReady(t) ==
    {c \in {"wake", "timer"} :
        \/ c = "wake" /\ CanRecv(Wake[tgt[t]])
        \/ c = "timer" /\ sleepLeft[t] = 0}

\* proc-sleep up to its select: the argument checks, then time.After(d).
ProcSleepImpl(t, h, mIsInt, d) ==
    /\ HostUp
    /\ Idle(t) /\ h \in Handles
    /\ IF h = NoProc \/ ~mIsInt
       THEN /\ returned' = [op |-> "proc-sleep", p |-> h, ret |-> "TypeError"]
            /\ UNCHANGED threadVars
       ELSE /\ pc' = [pc EXCEPT ![t] = "sleep"]
            /\ tgt' = [tgt EXCEPT ![t] = h]
            /\ sleepLeft' = [sleepLeft EXCEPT ![t] = Max(d, 0)]
            /\ wakeSeen' = [wakeSeen EXCEPT ![t] = CanRecv(Wake[h])]
            /\ preWoken' = [u \in Threads |->
                  IF u = t THEN kept[h] /\ d > 0 /\ NoSleeper(h)
                  ELSE IF pc[u] = "sleep" /\ tgt[u] = h THEN FALSE
                  ELSE preWoken[u]]
            /\ returned' = NoCall
            /\ UNCHANGED <<wakeInWindow, late, drained>>
    /\ UNCHANGED <<procVars, histVars>>

\* Mutant: proc-sleep waits on proc.Abort where it should wait on proc.Wake.
ProcSleepSelectOnAbort(t, c) ==
    /\ HostUp
    /\ pc[t] = "sleep"
    /\ c \in {"wake", "timer"}
    /\ IF c = "wake" THEN CanRecv(Abort[tgt[t]]) ELSE sleepLeft[t] = 0
    /\ Abort' = [Abort EXCEPT ![tgt[t]] = IF c = "wake" THEN @ - 1 ELSE @]
    /\ returned' = [op |-> "proc-sleep", p |-> tgt[t],
                    ret |-> IF c = "wake" THEN "true" ELSE "false",
                    early |-> sleepLeft[t] > 0,
                    inWindow |-> wakeInWindow[t],
                    seen |-> wakeSeen[t],
                    preWoken |-> preWoken[t]]
    /\ Release(t)
    /\ UNCHANGED <<kind, Wake, Restart, ScheduleTimer, millis, ctl, invoked, outcome, logs>>
    /\ UNCHANGED <<histVars, drained>>

\* The select of proc-sleep picks a ready case and the call returns.
ProcSleepSelect(t, c) ==
    /\ HostUp
    /\ pc[t] = "sleep"
    /\ c \in SleepReady(t)
    /\ Wake' = [Wake EXCEPT ![tgt[t]] = IF c = "wake" THEN @ - 1 ELSE @]
    /\ returned' = [op |-> "proc-sleep", p |-> tgt[t],
                    ret |-> IF c = "wake" THEN "true" ELSE "false",
                    early |-> sleepLeft[t] > 0,
                    inWindow |-> wakeInWindow[t],
                    seen |-> wakeSeen[t],
                    preWoken |-> preWoken[t]]
    /\ drained' = IF c = "wake" THEN DrainedAfterRecv(tgt[t]) ELSE drained
    /\ kept' = IF c = "wake" THEN [kept EXCEPT ![tgt[t]] = FALSE] ELSE kept
    /\ Release(t)
    /\ UNCHANGED <<kind, Abort, Restart, ScheduleTimer, millis, ctl, invoked, outcome, logs>>
    /\ UNCHANGED <<age, abandons, resets, earlyReset, sinceReset>>

\* ------------------------------------------------------------------ wake
\* What a completed send on Wake of p means to the proc-sleep calls pending on p.
InWindowAfterWake(p) ==
    [u \in Threads |-> wakeInWindow[u] \/ (pc[u] = "sleep" /\ tgt[u] = p /\ sleepLeft[u] > 0)]

SeenAfterWake(p) ==
    [u \in Threads |-> wakeSeen[u] \/ (pc[u] = "sleep" /\ tgt[u] = p)]

\* wake up to its send: the call returns at once if the send can proceed,
\* and otherwise blocks in it.
WakeImpl(t, h) ==
    /\ HostUp
    /\ h \in Handles
    /\ IF h = NoProc
       THEN /\ returned' = [op |-> "wake", p |-> h, ret |-> "TypeError"]
            /\ UNCHANGED <<Wake, kept, threadVars>>
       ELSE IF CanSend(Wake[h])
       THEN /\ Wake' = [Wake EXCEPT ![h] = @ + 1]
            /\ wakeInWindow' = InWindowAfterWake(h)
            /\ wakeSeen' = SeenAfterWake(h)
            /\ kept' = [kept EXCEPT ![h] = NoSleeper(h)]
            /\ returned' = [op |-> "wake", p |-> h, ret |-> "OK", waited |-> FALSE, drained |-> FALSE]
            /\ UNCHANGED <<pc, tgt, sleepLeft, late, drained, preWoken>>
       ELSE /\ Idle(t)
            /\ pc' = [pc EXCEPT ![t] = "wake"]
            /\ tgt' = [tgt EXCEPT ![t] = h]
            /\ returned' = NoCall
            /\ UNCHANGED <<Wake, kept, sleepLeft, wakeInWindow, wakeSeen, late, drained, preWoken>>
    /\ UNCHANGED <<kind, Abort, Restart, ScheduleTimer, millis, ctl, invoked, outcome, logs>>
    /\ UNCHANGED <<age, abandons, resets, earlyReset, sinceReset>>

\* A blocked send on Wake proceeds and wake returns.
WakeResume(t) ==
    /\ HostUp
    /\ pc[t] = "wake"
    /\ CanSend(Wake[tgt[t]])
    /\ Wake' = [Wake EXCEPT ![tgt[t]] = @ + 1]
    /\ wakeInWindow' = InWindowAfterWake(tgt[t])
    /\ wakeSeen' = SeenAfterWake(tgt[t])
    /\ pc' = [pc EXCEPT ![t] = "idle"]
    /\ tgt' = [tgt EXCEPT ![t] = NoProc]
    /\ drained' = [drained EXCEPT ![t] = FALSE]
    /\ returned' = [op |-> "wake", p |-> tgt[t], ret |-> "OK", waited |-> TRUE, drained |-> drained[t]]
    /\ kept' = [kept EXCEPT ![tgt[t]] = NoSleeper(tgt[t])]
    /\ UNCHANGED <<sleepLeft, late, preWoken>>
    /\ UNCHANGED <<kind, Abort, Restart, ScheduleTimer, millis, ctl, invoked, outcome, logs>>
    /\ UNCHANGED <<age, abandons, resets, earlyReset, sinceReset>>

\* --------------------------------------------------------------- abandon
\* The record of abandon calls on p, after one more call started (done FALSE)
\* or after one returned "OK" (done TRUE).
AbandonNoted(p, done) ==
    IF done /\ BeforeDelay(p) THEN "early"
    ELSE IF abandons[p] = "none" THEN "some"
    ELSE abandons[p]

AbandonImpl(t, h) ==
    /\ HostUp
    /\ h \in Handles
    /\ IF h = NoProc
       THEN /\ returned' = [op |-> "abandon", p |-> h, ret |-> "TypeError"]
            /\ UNCHANGED <<Abort, abandons, threadVars>>
       ELSE IF CanSend(Abort[h])
       THEN /\ Abort' = [Abort EXCEPT ![h] = @ + 1]
            /\ abandons' = [abandons EXCEPT ![h] = AbandonNoted(h, TRUE)]
            /\ returned' = [op |-> "abandon", p |-> h, ret |-> "OK",
                            late |-> Exited(h), waited |-> FALSE]
            /\ UNCHANGED threadVars
       ELSE /\ Idle(t)
            /\ pc' = [pc EXCEPT ![t] = "abandon"]
            /\ tgt' = [tgt EXCEPT ![t] = h]
            /\ late' = [late EXCEPT ![t] = Exited(h)]
            /\ abandons' = [abandons EXCEPT ![h] = AbandonNoted(h, FALSE)]
            /\ returned' = NoCall
            /\ UNCHANGED <<Abort, sleepLeft, wakeInWindow, wakeSeen, drained, preWoken>>
    /\ UNCHANGED <<kind, Wake, Restart, ScheduleTimer, millis, ctl, invoked, outcome, logs>>
    /\ UNCHANGED <<age, resets, earlyReset, sinceReset, kept>>

\* A blocked send on Abort proceeds and abandon returns.
AbandonResume(t) ==
    /\ HostUp
    /\ pc[t] = "abandon"
    /\ CanSend(Abort[tgt[t]])
    /\ Abort' = [Abort EXCEPT ![tgt[t]] = @ + 1]
    /\ abandons' = [abandons EXCEPT ![tgt[t]] = AbandonNoted(tgt[t], TRUE)]
    /\ returned' = [op |-> "abandon", p |-> tgt[t], ret |-> "OK",
                    late |-> late[t], waited |-> TRUE]
    /\ Release(t)
    /\ UNCHANGED drained
    /\ UNCHANGED <<kind, Wake, Restart, ScheduleTimer, millis, ctl, invoked, outcome, logs>>
    /\ UNCHANGED <<age, resets, earlyReset, sinceReset, kept>>

\* --------------------------------------------------------- reset-timeout
InfoMsg == "task was already completed or abandoned"

\* Mutant: reset-timeout sends whether or not Restart has room.
ResetTimeoutResultAlways(p) == "OK"

\* The non-blocking send of reset-timeout: select with a default case.
ResetTimeoutResult(p) ==
    IF CanSend(Restart[p]) THEN "OK" ELSE InfoMsg

ResetTimeoutImpl(h) ==
    /\ HostUp
    /\ h \in Handles
    /\ IF h = NoProc
       THEN /\ returned' = [op |-> "reset-timeout", p |-> h, ret |-> "TypeError"]
            /\ UNCHANGED <<Restart, resets, earlyReset, sinceReset>>
       ELSE /\ Restart' = [Restart EXCEPT ![h] = IF ResetTimeoutResult(h) = "OK" THEN @ + 1 ELSE @]
            /\ resets' = [resets EXCEPT ![h] = Min(@ + 1, 2)]
            /\ earlyReset' = [earlyReset EXCEPT ![h] =
                  IF resets[h] = 0 THEN BeforeDelay(h) ELSE @]
            /\ sinceReset' = [sinceReset EXCEPT ![h] = IF resets[h] = 0 THEN 0 ELSE @]
            /\ returned' = [op |-> "reset-timeout", p |-> h, ret |-> ResetTimeoutResult(h),
                            ctl |-> ctl[h], full |-> Restart[h] >= ChanCap]
    /\ UNCHANGED <<kind, Wake, Abort, ScheduleTimer, millis, ctl, invoked, outcome, logs>>
    /\ UNCHANGED <<age, abandons, kept, threadVars>>

\* ------------------------------------------------------------------ time
\* One millisecond passes.
Tick ==
    /\ HostUp
    /\ ScheduleTimer' = [p \in Procs |-> TickTimer(ScheduleTimer[p])]
    /\ age' = [p \in Procs |->
                 IF kind[p] = "sched" /\ ctl[p] = "armed" THEN Min(age[p] + 1, MaxDelay) ELSE age[p]]
    /\ sinceReset' = [p \in Procs |->
                 IF earlyReset[p] /\ ctl[p] = "armed" THEN Min(sinceReset[p] + 1, MaxDelay)
                 ELSE sinceReset[p]]
    /\ sleepLeft' = [t \in Threads |->
                 IF pc[t] = "sleep" THEN Max(sleepLeft[t] - 1, 0) ELSE sleepLeft[t]]
    /\ returned' = NoCall
    /\ UNCHANGED <<kind, Wake, Abort, Restart, millis, ctl, invoked, outcome, logs>>
    /\ UNCHANGED <<abandons, resets, earlyReset, kept>>
    /\ UNCHANGED <<pc, tgt, wakeInWindow, wakeSeen, late, drained, preWoken>>

\* What a script can pass where a process is expected.
Args == Procs \cup {NoProc}
\* The traces that have every line the wrapper reads.
FullTraces == {n \in Traces : n >= StackLines}

\* Every primitive, with every kind of argument.
Next ==
    \/ \E f \in BOOLEAN, a \in Arities : ForkImpl(f, a)
    \/ \E p \in Procs : ForkRun(p)
    \/ \E p \in Procs, how \in {"ok", "err"} : CallbackReturn(p, how)
    \/ \E p \in Procs, n \in Traces : CallbackFault(p, n)
    \/ \E di \in BOOLEAN, d \in Delays, f \in BOOLEAN, a \in Arities : ScheduleImpl(di, d, f, a)
    \/ \E p \in Procs, c \in {"abort", "restart", "timer"} : ControllerStep(p, c)
    \/ \E t \in Threads, h \in Args, mi \in BOOLEAN, d \in Delays : ProcSleepImpl(t, h, mi, d)
    \/ \E t \in Threads, c \in {"wake", "timer"} : ProcSleepSelect(t, c)
    \/ \E t \in Threads, h \in Args : WakeImpl(t, h)
    \/ \E t \in Threads : WakeResume(t)
    \/ \E t \in Threads, h \in Args : AbandonImpl(t, h)
    \/ \E t \in Threads : AbandonResume(t)
    \/ \E h \in Args : ResetTimeoutImpl(h)
    \/ Tick

Spec == Init /\ [][Next]_vars

\* The schedule controller with the callers of abandon and reset-timeout.
\* Wake is touched by proc-sleep and wake alone, which SpecSleep covers.
NextSched ==
    \/ \E d \in Delays : ScheduleImpl(TRUE, d, TRUE, RequiredArity)
    \/ \E p \in Procs, c \in {"abort", "restart", "timer"} : ControllerStep(p, c)
    \/ \E p \in Procs, how \in {"ok", "err"} : CallbackReturn(p, how)
    \/ \E p \in Procs, n \in FullTraces : CallbackFault(p, n)
    \/ \E t \in Threads, h \in Args : AbandonImpl(t, h)
    \/ \E t \in Threads : AbandonResume(t)
    \/ \E h \in Args : ResetTimeoutImpl(h)
    \/ Tick

SpecSched == Init /\ [][NextSched]_vars

\* proc-sleep and wake on the handles fork returns.  Abort, Restart and the
\* timer are touched by the controller, abandon and reset-timeout alone
\* (SpecSched); the forked task itself reads and writes nothing proc-sleep or
\* wake uses, and its steps are in SpecCreate.
NextSleep ==
    \/ ForkImpl(TRUE, RequiredArity)
    \/ \E t \in Threads, h \in Args, mi \in BOOLEAN, d \in Delays : ProcSleepImpl(t, h, mi, d)
    \/ \E t \in Threads, c \in {"wake", "timer"} : ProcSleepSelect(t, c)
    \/ \E t \in Threads, h \in Args : WakeImpl(t, h)
    \/ \E t \in Threads : WakeResume(t)
    \/ Tick

SpecSleep == Init /\ [][NextSleep]_vars

\* Process creation with every kind of argument, and the tasks it spawns.
\* The well-formed schedule calls take every delay; the calls with a malformed
\* argument are made with one delay.
NextCreate ==
    \/ \E f \in BOOLEAN, a \in Arities : ForkImpl(f, a)
    \/ \E d \in Delays : ScheduleImpl(TRUE, d, TRUE, RequiredArity)
    \/ \E di \in BOOLEAN, f \in BOOLEAN, a \in Arities :
          (~di \/ ~f \/ a # RequiredArity) /\ ScheduleImpl(di, 0, f, a)
    \/ \E p \in Procs : ForkRun(p)
    \/ \E p \in Procs, c \in {"abort", "restart", "timer"} : ControllerStep(p, c)
    \/ \E p \in Procs, how \in {"ok", "err"} : CallbackReturn(p, how)
    \/ \E p \in Procs, n \in FullTraces : CallbackFault(p, n)
    \/ Tick

SpecCreate == Init /\ [][NextCreate]_vars

\* The controller task and the clock are scheduled fairly: a controller whose
\* select can proceed eventually runs, and time keeps passing.
FairSched ==
    /\ SpecSched
    /\ WF_vars(Tick)
    /\ \A p \in Procs : WF_vars(\E c \in {"abort", "restart", "timer"} : ControllerStep(p, c))

\* FairSched, with a callback that, once applied, ends.
FairSchedReturns ==
    /\ FairSched
    /\ \A p \in Procs :
          WF_vars(\/ \E how \in {"ok", "err"} : CallbackReturn(p, how)
                  \/ \E n \in FullTraces : CallbackFault(p, n))

\* The same scheduling for the tasks of SpecCreate.
FairCreate ==
    /\ SpecCreate
    /\ WF_vars(Tick)
    /\ \A p \in Procs : WF_vars(\E c \in {"abort", "restart", "timer"} : ControllerStep(p, c))

\* A forked task that has been started eventually runs.
FairFork ==
    /\ SpecCreate
    /\ \A p \in Procs : WF_vars(ForkRun(p))

\* Process creation and the tasks it spawns, with a fault in the callback
\* leaving a trace of any length.
NextFault ==
    \/ \E f \in BOOLEAN, a \in Arities : ForkImpl(f, a)
    \/ \E d \in Delays : ScheduleImpl(TRUE, d, TRUE, RequiredArity)
    \/ \E di \in BOOLEAN, f \in BOOLEAN, a \in Arities :
          (~di \/ ~f \/ a # RequiredArity) /\ ScheduleImpl(di, 0, f, a)
    \/ \E p \in Procs : ForkRun(p)
    \/ \E p \in Procs, c \in {"abort", "restart", "timer"} : ControllerStep(p, c)
    \/ \E p \in Procs, how \in {"ok", "err"} : CallbackReturn(p, how)
    \/ \E p \in Procs, n \in Traces : CallbackFault(p, n)
    \/ Tick

SpecFault == Init /\ [][NextFault]_vars

\* Every primitive that takes a Process, called on the processes of both
\* fork and schedule.
NextHandles ==
    \/ ForkImpl(TRUE, RequiredArity)
    \/ \E d \in Delays : ScheduleImpl(TRUE, d, TRUE, RequiredArity)
    \/ \E p \in Procs, c \in {"abort", "restart", "timer"} : ControllerStep(p, c)
    \/ \E p \in Procs, how \in {"ok", "err"} : CallbackReturn(p, how)
    \/ \E t \in Threads, h \in Procs, d \in Delays : ProcSleepImpl(t, h, TRUE, d)
    \/ \E t \in Threads, c \in {"wake", "timer"} : ProcSleepSelect(t, c)
    \/ \E t \in Threads, h \in Procs : WakeImpl(t, h)
    \/ \E t \in Threads : WakeResume(t)
    \/ \E t \in Threads, h \in Procs : AbandonImpl(t, h)
    \/ \E t \in Threads : AbandonResume(t)
    \/ \E h \in Procs : ResetTimeoutImpl(h)
    \/ Tick

SpecHandles == Init /\ [][NextHandles]_vars

\* ================================================================ claims
\* A proc-sleep call returned (its arguments were accepted).
SleepReturned == returned.op = "proc-sleep" /\ returned.ret # "TypeError"
\* A reset-timeout call on a Process returned.
ResetReturned == returned.op = "reset-timeout" /\ returned.ret # "TypeError"
\* Neither abandon nor reset-timeout was ever called on p.
Untouched(p) == abandons[p] = "none" /\ resets[p] = 0

\* C1: once an abandon(p) has returned "OK" before the delay of the scheduled
\* process p elapsed, the callback of p is never invoked.
C1_AbandonPreventsCallback ==
    \A p \in Procs : abandons[p] = "early" => invoked[p] = 0

\* C2: a reset-timeout(p) made after the controller of p has exited (Fired or
\* Aborted) returns "task was already completed or abandoned", never "OK".
C2_ResetAfterExitRefused ==
    ResetReturned /\ returned.ctl \in {"fired", "aborted"} => returned.ret = InfoMsg

\* C3 as stated: an abandon(p) called after the controller of p has exited
\* never returns.
C3_AbandonAfterExitNeverReturns ==
    ~(returned.op = "abandon" /\ returned.ret = "OK" /\ returned.late)

\* C3 amended: an abandon(p) called after the controller has exited returns
\* "OK" at once when Abort is empty (its event stays there, unconsumed); it
\* blocks only when Abort already holds an event, and then it never returns
\* and the event is never taken.
C3_AbandonAfterExitBlocksOnlyWhenFull ==
    /\ [](\A t \in Threads : pc[t] = "abandon" /\ late[t] =>
              Exited(tgt[t]) /\ Abort[tgt[t]] = ChanCap)
    /\ [](returned.op = "abandon" /\ returned.ret = "OK" /\ returned.late =>
              ~returned.waited /\ Abort[returned.p] = ChanCap)
    /\ [][\A t \in Threads : pc[t] = "abandon" /\ late[t] =>
              pc'[t] = "abandon" /\ Abort'[tgt[t]] = Abort[tgt[t]]]_vars

C3_Witness ==
    \E t \in Threads : pc[t] = "abandon" /\ late[t] /\ ctl[tgt[t]] = "fired"
                           /\ abandons[tgt[t]] = "some"

\* C4: a scheduled process on which neither abandon nor reset-timeout is ever
\* called has its callback invoked eventually, at most once, and not before
\* its delay has elapsed since the schedule call.
C4_ScheduleFiresOnce ==
    /\ [](\A p \in Procs : kind[p] = "sched" /\ Untouched(p) =>
              invoked[p] <= 1 /\ (invoked[p] = 1 => age[p] >= millis[p]))
    /\ \A p \in Procs :
          [](kind[p] = "sched" => <>(invoked[p] = 1 \/ ~Untouched(p)))

C4_Witness ==
    \E p \in Procs : kind[p] = "sched" /\ Untouched(p) /\ invoked[p] = 1
                       /\ millis[p] = MaxDelay /\ age[p] >= millis[p]

\* C5 as stated: a proc-sleep call that was pending, its duration not yet
\* elapsed, when a wake was delivered returns true, before the duration elapses.
C5_WakeWhilePendingReturnsTrue ==
    SleepReturned /\ returned.inWindow => returned.ret = "true" /\ returned.early

\* C5 amended: a wake delivered while proc-sleep calls are pending is taken by
\* at most one of them.  A call returns true exactly when it takes an event
\* from Wake, a call that returns before its duration has elapsed has taken
\* one and returns true, and a pending call can take an event that is there.
\* A call whose duration elapses first, or that finds the event taken, may
\* return false.
C5_WakeTakenByOneSleeper ==
    /\ [](\A t \in Threads : pc[t] = "sleep" /\ CanRecv(Wake[tgt[t]]) =>
              ENABLED ProcSleepSelect(t, "wake"))
    /\ [](SleepReturned /\ returned.early => returned.ret = "true")
    /\ [](SleepReturned /\ returned.ret = "true" => returned.seen)
    /\ [][\A t \in Threads : pc[t] = "sleep" /\ pc'[t] = "idle" =>
              Wake'[tgt[t]] = Wake[tgt[t]] - (IF returned'.ret = "true" THEN 1 ELSE 0)]_vars

C5_Witness ==
    /\ SleepReturned /\ returned.inWindow /\ returned.ret = "true" /\ returned.early
    /\ \E t \in Threads : pc[t] = "sleep" /\ tgt[t] = returned.p /\ wakeInWindow[t]
                           /\ ~CanRecv(Wake[tgt[t]])

\* C6 as stated: a proc-sleep call in whose window no wake was delivered
\* returns false, and not before its duration has elapsed.
C6_NoWakeInWindowReturnsFalse ==
    SleepReturned /\ ~returned.inWindow => returned.ret = "false" /\ ~returned.early

\* C6 amended: a proc-sleep call that finds Wake empty when it starts, and to
\* whose process no wake is delivered before it returns, returns false, and
\* not before its duration has elapsed.
C6_NoEventReturnsFalse ==
    SleepReturned /\ ~returned.seen => returned.ret = "false" /\ ~returned.early

C6_Witness ==
    SleepReturned /\ ~returned.seen /\ returned.ret = "false" /\ ~returned.early

\* C7: a single reset-timeout(p), made while the controller of p waits and
\* before the delay has elapsed, returns "OK", and the callback is not invoked
\* until the full delay has elapsed since that call, and then once.
C7_ResetPostponesFiring ==
    /\ ResetReturned /\ resets[returned.p] = 1 /\ earlyReset[returned.p] => returned.ret = "OK"
    /\ \A p \in Procs : resets[p] = 1 /\ earlyReset[p] /\ invoked[p] >= 1 =>
           invoked[p] = 1 /\ sinceReset[p] >= millis[p]

\* A fork or schedule call was given a callable whose arity is not 1.
BadArityCall ==
    returned.op \in {"fork", "schedule"} /\ returned.fIsFunc /\ returned.arity # RequiredArity

\* C8 as stated: fork(f) and schedule(d, f) with a callable f of arity other
\* than 1 return an ArityError, whatever d is.
C8_ArityErrorForAnyDelay ==
    BadArityCall => returned.ret = "ArityError"

\* C8 amended: with a callable f of arity other than 1, fork(f) returns an
\* ArityError, and schedule(d, f) returns an ArityError when d is an integer
\* and a TypeError (the delay is checked first) when it is not.  Either way
\* the call allocates no Process, arms no timer, runs no callback and logs
\* nothing.
C8_BadArityRefused ==
    /\ [](BadArityCall =>
              returned.ret = (IF returned.dIsInt THEN "ArityError" ELSE "TypeError"))
    /\ [][returned'.op \in {"fork", "schedule"} /\ returned'.fIsFunc
              /\ returned'.arity # RequiredArity => UNCHANGED procVars]_vars

C8_Witness ==
    /\ returned.op = "schedule" /\ returned.dIsInt /\ returned.fIsFunc
    /\ returned.arity = MaxArity /\ returned.ret = "ArityError"
    /\ Created # Procs

\* C9: a wake(p) made while Wake holds an event blocks, and returns "OK" only
\* after a proc-sleep has taken that event; nothing else empties Wake, so it
\* never returns without one.  A wake(p) made while Wake is empty returns "OK"
\* at once.
C9_WakeBlocksUntilDrained ==
    /\ [](\A h \in Created : CanSend(Wake[h]) => ENABLED WakeImpl(1, h))
    /\ [](returned.op = "wake" /\ returned.ret = "OK" => returned.waited = returned.drained)
    /\ [][(returned'.op = "wake" /\ returned'.ret = "OK" /\ ~returned'.waited
              => Wake[returned'.p] < ChanCap)
          /\ (\A t \in Threads : pc[t] # "wake" /\ pc'[t] = "wake"
              => Wake[tgt'[t]] = ChanCap /\ returned' = NoCall)
          /\ (\A p \in Procs : Wake'[p] < Wake[p]
              => returned'.op = "proc-sleep" /\ returned'.p = p /\ returned'.ret = "true")]_vars

C9_Witness ==
    returned.op = "wake" /\ returned.ret = "OK" /\ returned.waited /\ returned.drained

\* C10: reset-timeout never blocks; it returns "OK" when the controller waits
\* and the event is accepted, and the informational string when the
\* controller has exited or a restart event is still undelivered.
C10_ResetNeverBlocksAndReports ==
    /\ \A h \in Created : ENABLED ResetTimeoutImpl(h)
    /\ ResetReturned =>
          /\ returned.ctl = "armed" /\ ~returned.full => returned.ret = "OK"
          /\ returned.ctl \in {"fired", "aborted"} \/ returned.full => returned.ret = InfoMsg
\* C11: fork(g) with a callable g of arity 1 returns a Process at once, before
\* g has started; g is applied exactly once on the spawned task; however g
\* ends (normal return, error value, runtime fault), its end returns nothing
\* to any caller.
C11_ForkFireAndForget ==
    /\ [](FreeSlot # NoProc => ENABLED ForkImpl(TRUE, RequiredArity))
    /\ [](returned.op = "fork" /\ returned.fIsFunc /\ returned.arity = RequiredArity =>
              returned.ret = "Process")
    /\ [][returned'.op = "fork" /\ returned'.ret = "Process" =>
              \E p \in Procs : /\ kind[p] = "none" /\ kind'[p] = "fork"
                                /\ ctl'[p] = "spawned" /\ invoked'[p] = 0
                                /\ outcome'[p] = "none" /\ logs'[p] = 0]_vars
    /\ [][\A p \in Procs : kind[p] = "fork" /\ ctl[p] = "running" /\ ctl'[p] # "running" =>
              ctl'[p] = "done" /\ returned' = NoCall /\ UNCHANGED threadVars]_vars
    /\ [](\A p \in Procs : kind[p] = "fork" => invoked[p] <= 1)
    /\ \A p \in Procs : [](kind[p] = "fork" => <>(invoked[p] = 1))

C11_Witness ==
    \E p \in Procs : kind[p] = "fork" /\ ctl[p] = "done" /\ invoked[p] = 1
                       /\ outcome[p] = "fault" /\ logs[p] = StackLines

C13_CallbackAtMostOnce ==
    /\ [](\A p \in Procs : kind[p] = "sched" => invoked[p] <= 1)
    /\ [](\A p \in Procs : ctl[p] = "aborted" => invoked[p] = 0)
    /\ [](\A p \in Procs : kind[p] = "sched" /\ ctl[p] \in {"running", "fired"} => invoked[p] = 1)
    /\ [][\A p \in Procs : Abort'[p] < Abort[p] => ctl[p] = "armed" /\ ctl'[p] = "aborted"]_vars
    /\ [][\A p \in Procs : ctl[p] = "aborted" =>
              ctl'[p] = "aborted" /\ invoked'[p] = invoked[p]]_vars

C13_Witness ==
    \E p \in Procs : /\ ctl[p] = "aborted" /\ invoked[p] = 0 /\ resets[p] >= 1
                       /\ CanRecv(ScheduleTimer[p].C)
\* C14: Aborted and Fired are absorbing.  Once the controller of p has
\* exited, its state never changes, no event is taken from Abort or Restart
\* of p (the ones abandon and reset-timeout put there stay), the timer is not
\* re-armed (it can only run out) and the callback is not invoked.
C14_ExitedAbsorbing ==
    [][\A p \in Procs : Exited(p) =>
          /\ ctl'[p] = ctl[p]
          /\ Abort'[p] >= Abort[p] /\ Restart'[p] >= Restart[p]
          /\ ScheduleTimer'[p] \in {ScheduleTimer[p], TickTimer(ScheduleTimer[p])}
          /\ invoked'[p] = invoked[p]]_vars

C14_Witness ==
    /\ ResetReturned /\ returned.ctl = "aborted" /\ returned.ret = "OK"
    /\ Restart[returned.p] = ChanCap /\ Abort[returned.p] = ChanCap
    /\ CanRecv(ScheduleTimer[returned.p].C)
\* C15: the step in which the waiting controller consumes a restart event
\* re-arms the timer with the delay schedule captured, leaves the controller
\* Armed and invokes nothing; and the callback is invoked only once the timer,
\* as last armed, has run its full delay (also when the previous deadline had
\* passed before the restart event was consumed).
C15_RestartRearmsFullDelay ==
    /\ [][\A p \in Procs : Restart'[p] < Restart[p] =>
              /\ ctl[p] = "armed" /\ ctl'[p] = "armed"
              /\ invoked'[p] = invoked[p] /\ millis'[p] = millis[p]
              /\ ScheduleTimer'[p].left = NewTimer(millis[p]).left]_vars
    /\ [][\A p \in Procs : kind[p] = "sched" /\ invoked'[p] > invoked[p] =>
              ScheduleTimer[p].left = TimerOff]_vars
\* C16 as stated: no event is ever taken from Abort or Restart of a process
\* fork created, nor from Wake of a process schedule created.
C16_SignalsByKind ==
    [][\A p \in Procs :
          /\ kind[p] = "fork" => Abort'[p] >= Abort[p] /\ Restart'[p] >= Restart[p]
          /\ kind[p] = "sched" => Wake'[p] >= Wake[p]]_vars

\* C16 amended: no event is ever taken from Abort or Restart of a process
\* fork created: only the waiting controller of a scheduled process takes
\* one.  An event is taken from Wake of a process, whichever primitive
\* created it, only by a proc-sleep call on that process, which then returns
\* true; the controller never takes it.
C16_SignalsByReceiver ==
    [][\A p \in Procs :
          /\ kind[p] = "fork" => Abort'[p] >= Abort[p] /\ Restart'[p] >= Restart[p]
          /\ Abort'[p] < Abort[p] \/ Restart'[p] < Restart[p] =>
                 kind[p] = "sched" /\ ctl[p] = "armed" /\ returned' = NoCall
          /\ Wake'[p] < Wake[p] =>
                 returned'.op = "proc-sleep" /\ returned'.p = p /\ returned'.ret = "true"]_vars

C16_Witness ==
    \E p \in Procs : /\ kind[p] = "fork" /\ Abort[p] = ChanCap /\ Restart[p] = ChanCap
                       /\ \E t \in Threads : pc[t] = "abandon" /\ tgt[t] = p
                       /\ returned.op = "proc-sleep" /\ returned.p = p /\ returned.ret = "true"
\* C17: Wake, Abort and Restart of every process hold at most one event,
\* whatever callers of wake, abandon and reset-timeout run concurrently.  A
\* wake or abandon that finds its channel full blocks, and stays blocked
\* while it is full; a reset-timeout that finds Restart full returns the
\* informational string and adds nothing.
C17_AtMostOneEvent ==
    /\ [](\A p \in Procs : /\ Wake[p] \in 0..ChanCap
                            /\ Abort[p] \in 0..ChanCap
                            /\ Restart[p] \in 0..ChanCap)
    /\ [](\A t \in Threads :
              /\ pc[t] = "wake" /\ Wake[tgt[t]] = ChanCap => ~ENABLED WakeResume(t)
              /\ pc[t] = "abandon" /\ Abort[tgt[t]] = ChanCap => ~ENABLED AbandonResume(t))
    /\ [](ResetReturned /\ returned.full =>
              returned.ret = InfoMsg /\ Restart[returned.p] = ChanCap)
    /\ [][\A t \in Threads :
              /\ pc[t] # "wake" /\ pc'[t] = "wake" =>
                     Wake[tgt'[t]] = ChanCap /\ Wake' = Wake
              /\ pc[t] # "abandon" /\ pc'[t] = "abandon" =>
                     Abort[tgt'[t]] = ChanCap /\ Abort' = Abort]_vars

C17_Witness ==
    /\ ResetReturned /\ returned.full /\ returned.ret = InfoMsg
    /\ \E t, u \in Threads : /\ pc[t] = "wake" /\ tgt[t] = returned.p
                              /\ pc[u] = "abandon" /\ tgt[u] = returned.p
    /\ Wake[returned.p] = ChanCap /\ Abort[returned.p] = ChanCap
\* C18: wake events are conserved.  In every step, Wake of p gains one event
\* exactly when a wake(p) delivers (returns "OK") and loses one exactly when
\* a proc-sleep on p returns true, and it never holds less than none: the
\* calls that returned true are as many as the events removed and never more
\* than the deliveries made, and one event makes one call return true.
C18_WakeConserved ==
    /\ [](\A p \in Procs : Wake[p] >= 0)
    /\ [][\A p \in Procs :
              Wake'[p] - Wake[p] =
                  (IF returned'.op = "wake" /\ returned'.p = p /\ returned'.ret = "OK"
                   THEN 1 ELSE 0)
                - (IF returned'.op = "proc-sleep" /\ returned'.p = p /\ returned'.ret = "true"
                   THEN 1 ELSE 0)]_vars
    /\ [](\A t \in Threads : pc[t] = "sleep" /\ ~CanRecv(Wake[tgt[t]]) =>
              ~ENABLED ProcSleepSelect(t, "wake"))

C18_Witness ==
    /\ SleepReturned /\ returned.ret = "true" /\ Wake[returned.p] = 0
    /\ \E t \in Threads : /\ pc[t] = "sleep" /\ tgt[t] = returned.p
                           /\ wakeSeen[t] /\ sleepLeft[t] > 0
\* C19 as stated: after a wake(p) that returned "OK" while no proc-sleep on p
\* was pending, the next proc-sleep(p, d) with d > 0, alone on p, returns
\* true (and, the claim adds, does so before d has elapsed).
C19_WakeBeforeSleepReturnsTrue ==
    SleepReturned /\ returned.preWoken => returned.ret = "true"

\* C19 amended: the event of such a wake stays in Wake until a proc-sleep
\* takes it.  The next proc-sleep(p, d) with d > 0, alone on p, finds it: it
\* can return true at once, it cannot return false while d has not elapsed,
\* and when it returns before d has elapsed it returns true.  If its select
\* runs only after d has elapsed it may return false, and the event then
\* stays in Wake.
C19_WakeKeptForNextSleep ==
    /\ \A p \in Procs : kept[p] => CanRecv(Wake[p])
    /\ \A t \in Threads : pc[t] = "sleep" /\ preWoken[t] =>
           /\ CanRecv(Wake[tgt[t]])
           /\ ENABLED ProcSleepSelect(t, "wake")
           /\ sleepLeft[t] > 0 => ~ENABLED ProcSleepSelect(t, "timer")
    /\ SleepReturned /\ returned.preWoken /\ returned.early => returned.ret = "true"
    /\ SleepReturned /\ returned.preWoken /\ returned.ret = "false" =>
           ~returned.early /\ CanRecv(Wake[returned.p])

C19_Witness ==
    SleepReturned /\ returned.preWoken /\ returned.ret = "true" /\ returned.early
\* A reset-timeout(p) put an event in Restart of p.
ResetAccepted(p) ==
    returned.op = "reset-timeout" /\ returned.p = p /\ returned.ret = "OK"

\* C20: under fair scheduling of the controller, with time advancing and the
\* callback returning, the controller of every scheduled process eventually
\* exits (Fired or Aborted), unless reset-timeout calls on it are accepted
\* again and again without end.
C20_ControllerTerminates ==
    \A p \in Procs :
        \/ []<>ResetAccepted(p)
        \/ [](kind[p] = "sched" => <>Exited(p))

C20_Witness ==
    \E p \in Procs : /\ ctl[p] = "fired" /\ resets[p] = 2 /\ abandons[p] = "none"
                       /\ millis[p] = MaxDelay /\ ~CanRecv(Restart[p])
====
